---- MODULE Spec2Model ----
(***************************************************************************)
(* Rotating segmented file storage of gather-blocks:                       *)
(* EfficientFileWriter and EfficientFileReader of                          *)
(* src/efficient_file_writer.rs over a small file system.                  *)
(*                                                                         *)
(* A file is a sequence of bytes; a byte is a string.  A String of the     *)
(* program is a sequence of bytes without BadByte (every other byte of     *)
(* the model is one ASCII character, so String::pop removes one byte).     *)
(***************************************************************************)
EXTENDS Integers, Sequences, FiniteSets, TLC

\* ------------------------------------------------------------------ bounds
\* most write calls made on the writer
MaxWrites == 2
\* most read_line calls made on the reader: one past the records written
MaxReads == MaxWrites + 1
\* largest writes_per_file handed to a constructor (0 is handed too)
MaxN == 2
\* capacity of the BufWriter made by BufWriter::new (8192 in std, scaled)
BufCap == 2

\* ------------------------------------------------------------------- bytes
NL == "\n"
\* a byte that is not valid UTF-8 anywhere (0xFF)
BadByte == "0xFF"
\* the byte held by the files an earlier run left behind
StaleByte == "s"

\* the records handed to write (the caller keeps them free of the delimiter):
\* empty, shorter than the buffer, as long as the buffer (so written through
\* to the file), and not UTF-8
Records == { <<>>, <<"a">>, <<"a", "a">>, <<BadByte>> }

\* the Strings handed to read_line
BufInputs == { <<>> }

\* the base_name handed to the constructors
Bases == { <<"t">> }

Thresholds == 0..MaxN

\* ------------------------------------------------------------ pure helpers
Min(a, b) == IF a < b THEN a ELSE b

Digits == <<"0", "1", "2", "3", "4", "5", "6", "7", "8", "9">>

RECURSIVE Dec(_)
\* the decimal text of n, as format!("{}", n) writes a usize
Dec(n) == IF n < 10 THEN <<Digits[n + 1]>>
          ELSE Dec(n \div 10) \o <<Digits[(n % 10) + 1]>>

\* a segment name that leaves the base name out
FileNameFlat(base, n) == <<".">> \o Dec(n)

\* format!("{}.{}", base_name, n)
FileName(base, n) == base \o <<".">> \o Dec(n)

\* position of the first delimiter of s, 0 when it has none
NLPos(s) == IF \E i \in 1..Len(s) : s[i] = NL
            THEN CHOOSE i \in 1..Len(s) : s[i] = NL /\ \A j \in 1..(i - 1) : s[j] # NL
            ELSE 0

\* str::from_utf8(s).is_ok()
ValidUtf8(s) == \A i \in 1..Len(s) : s[i] # BadByte

\* s from index i on
From(s, i) == SubSeq(s, i, Len(s))

\* String::pop: the last character removed, nothing on an empty String
Pop(s) == IF s = <<>> THEN s ELSE SubSeq(s, 1, Len(s) - 1)

RECURSIVE Framed(_, _, _)
\* the records i..j of a log of write calls, each followed by the delimiter
Framed(log, i, j) == IF i > j THEN <<>>
                     ELSE log[i].data \o <<NL>> \o Framed(log, i + 1, j)

\* ------------------------------------------------------------- file system
\* write(2) on a handle of file name: bytes appended at its end
FsAppend(f, name, bytes) == [f EXCEPT ![name] = @ \o bytes]

\* File::create without truncation: a file that is there keeps its bytes
FsCreateKeep(f, name) ==
  [n \in DOMAIN f \cup {name} |-> IF n \in DOMAIN f THEN f[n] ELSE <<>>]

\* File::create: the file made, or truncated when it is there
FsCreate(f, name) == [n \in DOMAIN f \cup {name} |-> IF n = name THEN <<>> ELSE f[n]]

\* the segment names an archive can have within the bounds
SegmentNames(base) == { FileName(base, i) : i \in 0..(MaxWrites + MaxReads) }

\* ------------------------------------------------------------------- state
VARIABLES
  dir,      \* whether the directory exists
  fs,       \* the files of the directory: name -> bytes
  stale0,   \* whether the directory held segments of an earlier run at the start
  writer,   \* the EfficientFileWriter
  wlast,    \* what the writer's last call returned (again: it was a flush
            \* made right after a flush that returned Ok)
  wlog,     \* the write calls made so far, in call order
  reader,   \* the EfficientFileReader
  rlog,     \* the read_line calls made so far, in call order
  rborn,    \* what the writer had done when the reader was constructed
  faulted   \* whether the file system has failed a call or cut a write short

vars == <<dir, fs, stale0, writer, wlast, wlog, reader, rlog, rborn, faulted>>

NoFiles == [n \in {} |-> <<>>]

\* what an earlier run left: every segment name holding one record
StaleFiles == [n \in UNION { SegmentNames(b) : b \in Bases } |-> <<StaleByte, NL>>]

\* a writer or a reader that was not constructed yet
Unbuilt == [st |-> "none", base_name |-> <<>>, writes_per_file |-> 0,
            writes_performed |-> 0, current_file |-> <<>>, current_buffer |-> <<>>,
            pos |-> 0]

NoCall == [op |-> "none", kind |-> "none", fault |-> FALSE, again |-> FALSE]

Init ==
  /\ \/ dir = FALSE /\ fs = NoFiles /\ stale0 = FALSE
     \/ dir = TRUE /\ fs = NoFiles /\ stale0 = FALSE
     \/ dir = TRUE /\ fs = StaleFiles /\ stale0 = TRUE
  /\ writer = Unbuilt
  /\ wlast = NoCall
  /\ wlog = <<>>
  /\ reader = Unbuilt
  /\ rlog = <<>>
  /\ rborn = [writes |-> 0, flushed |-> FALSE]
  /\ faulted = FALSE

\* the file system fails, or cuts short, at most one call of a run
MayFault(f) == /\ f => ~faulted
               /\ faulted' = (faulted \/ f)

\* --------------------------------------------------------------- BufWriter
\* a flush_buf that writes the buffer and does not empty it
FlushBufKeep(file, buf, f) ==
  IF buf = <<>> THEN { [ok |-> TRUE, buf |-> <<>>, fs |-> f] }
  ELSE { [ok |-> TRUE, buf |-> buf, fs |-> FsAppend(f, file, buf)] }

\* BufWriter::flush_buf on the buffer buf of a handle of file: all of it
\* reaches the file, or a write fails after k bytes and the rest stays
FlushBuf(file, buf, f) ==
  IF buf = <<>> THEN { [ok |-> TRUE, buf |-> <<>>, fs |-> f] }
  ELSE { [ok |-> TRUE, buf |-> <<>>, fs |-> FsAppend(f, file, buf)] }
       \cup { [ok |-> FALSE, buf |-> From(buf, k + 1),
               fs |-> FsAppend(f, file, SubSeq(buf, 1, k))] : k \in 0..(Len(buf) - 1) }

\* File::write of data, reached when data is at least the buffer's capacity:
\* the file takes the first k >= 1 bytes, or the call fails
DirectWrite(file, buf, f, data) ==
  { [ok |-> TRUE, n |-> k, buf |-> buf, fs |-> FsAppend(f, file, SubSeq(data, 1, k)),
     fault |-> FALSE] : k \in 1..Len(data) }
  \cup { [ok |-> FALSE, n |-> 0, buf |-> buf, fs |-> f, fault |-> TRUE] }

\* BufWriter::write(data): buffered when it fits, after a flush when it does
\* not, and handed to the file when it is no shorter than the capacity
BufWrite(file, buf, f, data) ==
  IF Len(data) < BufCap - Len(buf)
  THEN { [ok |-> TRUE, n |-> Len(data), buf |-> buf \o data, fs |-> f, fault |-> FALSE] }
  ELSE LET flushed == IF Len(data) > BufCap - Len(buf)
                      THEN FlushBuf(file, buf, f)
                      ELSE { [ok |-> TRUE, buf |-> buf, fs |-> f] }
       IN UNION { IF ~fl.ok
                  THEN { [ok |-> FALSE, n |-> 0, buf |-> fl.buf, fs |-> fl.fs, fault |-> TRUE] }
                  ELSE IF Len(data) >= BufCap
                  THEN DirectWrite(file, fl.buf, fl.fs, data)
                  ELSE { [ok |-> TRUE, n |-> Len(data), buf |-> fl.buf \o data,
                          fs |-> fl.fs, fault |-> FALSE] }
                  : fl \in flushed }

\* ------------------------------------------------------------------ writer
\* current_file_name without the rounding down to the segment's start
WriterFileNameRaw(w) == FileName(w.base_name, w.writes_performed)

\* EfficientFileWriter::current_file_name (writes_per_file >= 1)
WriterFileName(w) ==
  FileName(w.base_name,
           w.writes_performed - (w.writes_performed % w.writes_per_file))

\* a rotation test that waits until the count exceeds the threshold
WriterRotatesGreater(w) == w.writes_performed > w.writes_per_file

\* the rotation test of write
WriterRotates(w) == w.writes_performed % w.writes_per_file = 0

\* the file write opens when it rotates
WriterNextName(w) == FileName(w.base_name, w.writes_performed)

\* EfficientFileWriter::new(base, n, directory)
WriterNew(base, n) ==
  /\ writer.st = "none"
  /\ UNCHANGED <<stale0, wlog, reader, rlog, rborn>>
  /\ \/ \* create_dir_all fails
        /\ ~dir
        /\ MayFault(TRUE)
        /\ writer' = [writer EXCEPT !.st = "failed"]
        /\ wlast' = [op |-> "new", kind |-> "err", fault |-> TRUE, again |-> FALSE]
        /\ UNCHANGED <<dir, fs>>
     \/ \* File::create fails
        /\ MayFault(TRUE)
        /\ dir' = TRUE
        /\ writer' = [writer EXCEPT !.st = "failed"]
        /\ wlast' = [op |-> "new", kind |-> "err", fault |-> TRUE, again |-> FALSE]
        /\ UNCHANGED fs
     \/ \* try_clone fails
        /\ MayFault(TRUE)
        /\ dir' = TRUE
        /\ fs' = FsCreate(fs, FileName(base, 0))
        /\ writer' = [writer EXCEPT !.st = "failed"]
        /\ wlast' = [op |-> "new", kind |-> "err", fault |-> TRUE, again |-> FALSE]
     \/ /\ MayFault(FALSE)
        /\ dir' = TRUE
        /\ fs' = FsCreate(fs, FileName(base, 0))
        /\ writer' = [st |-> "open", base_name |-> base, writes_per_file |-> n,
                      writes_performed |-> 0, current_file |-> FileName(base, 0),
                      current_buffer |-> <<>>, pos |-> 0]
        /\ wlast' = [op |-> "new", kind |-> "ok", fault |-> FALSE, again |-> FALSE]

\* the outcomes of write(data) on writer w over the files f: the writer and
\* the files it leaves, what it returns (kind, n), the bytes the segment's
\* stream took (taken) and whether a file-system call failed (fault) or took
\* fewer bytes than offered (short)
WriteOutcomes(w, f, data) ==
  UNION {
    IF ~o1.ok
    THEN { [w |-> [w EXCEPT !.current_buffer = o1.buf], fs |-> o1.fs, kind |-> "err",
            n |-> 0, taken |-> <<>>, fault |-> TRUE, short |-> FALSE] }
    ELSE UNION {
      IF ~o2.ok
      THEN { [w |-> [w EXCEPT !.current_buffer = o2.buf], fs |-> o2.fs, kind |-> "err",
              n |-> 0, taken |-> SubSeq(data, 1, o1.n), fault |-> TRUE,
              short |-> o1.n < Len(data)] }
      ELSE LET w1 == [w EXCEPT !.current_buffer = o2.buf,
                               !.writes_performed = @ + 1]
               n == o1.n + o2.n
               taken == SubSeq(data, 1, o1.n) \o <<NL>>
               short == o1.n < Len(data)
           IN IF w1.writes_per_file = 0
              THEN \* the remainder by zero panics
                   { [w |-> [w1 EXCEPT !.st = "panicked"], fs |-> o2.fs, kind |-> "panic",
                      n |-> 0, taken |-> taken, fault |-> FALSE, short |-> short] }
              ELSE IF ~WriterRotates(w1)
              THEN { [w |-> w1, fs |-> o2.fs, kind |-> "ok", n |-> n, taken |-> taken,
                      fault |-> FALSE, short |-> short] }
              ELSE \* File::create fails
                   { [w |-> w1, fs |-> o2.fs, kind |-> "err", n |-> 0, taken |-> taken,
                      fault |-> TRUE, short |-> short] }
                   \cup \* try_clone fails
                   { [w |-> w1, fs |-> FsCreate(o2.fs, WriterNextName(w1)), kind |-> "err",
                      n |-> 0, taken |-> taken, fault |-> TRUE, short |-> short] }
                   \cup \* the old BufWriter is dropped: flushed, its error ignored
                   { [w |-> [w1 EXCEPT !.current_file = WriterNextName(w1),
                                       !.current_buffer = <<>>],
                      fs |-> FsCreate(fl.fs, WriterNextName(w1)), kind |-> "ok", n |-> n,
                      taken |-> taken, fault |-> ~fl.ok, short |-> short]
                     : fl \in FlushBuf(w1.current_file, w1.current_buffer, o2.fs) }
      : o2 \in BufWrite(w.current_file, o1.buf, o1.fs, <<NL>>) }
    : o1 \in BufWrite(w.current_file, w.current_buffer, f, data) }

\* EfficientFileWriter::write(data)
WriterWrite(data) ==
  /\ writer.st = "open"
  /\ Len(wlog) < MaxWrites
  /\ \E o \in WriteOutcomes(writer, fs, data) :
       /\ MayFault(o.fault \/ o.short)
       /\ writer' = o.w
       /\ fs' = o.fs
       /\ wlast' = [op |-> "write", kind |-> o.kind, fault |-> o.fault, again |-> FALSE]
       /\ wlog' = Append(wlog, [data |-> data, kind |-> o.kind, n |-> o.n,
                                taken |-> o.taken, fault |-> o.fault, short |-> o.short,
                                file |-> writer.current_file,
                                name |-> IF o.w.writes_per_file = 0 THEN <<>>
                                         ELSE WriterFileName(o.w)])
  /\ UNCHANGED <<dir, stale0, reader, rlog, rborn>>

\* EfficientFileWriter::flush
WriterFlush ==
  /\ writer.st = "open"
  /\ \E fl \in FlushBuf(writer.current_file, writer.current_buffer, fs) :
       /\ MayFault(~fl.ok)
       /\ writer' = [writer EXCEPT !.current_buffer = fl.buf]
       /\ fs' = fl.fs
       /\ wlast' = [op |-> "flush", kind |-> IF fl.ok THEN "ok" ELSE "err",
                    fault |-> ~fl.ok,
                    again |-> wlast.op = "flush" /\ wlast.kind = "ok"]
  /\ UNCHANGED <<dir, stale0, wlog, reader, rlog, rborn>>

\* EfficientFileWriter::current_file_name, called by the owner: it changes
\* nothing and returns WriterFileName, or panics on the remainder by zero
WriterCurrentFileName ==
  /\ writer.st = "open"
  /\ IF writer.writes_per_file = 0
     THEN /\ writer' = [writer EXCEPT !.st = "panicked"]
          /\ wlast' = [op |-> "name", kind |-> "panic", fault |-> FALSE, again |-> FALSE]
     ELSE UNCHANGED <<writer, wlast>>
  /\ UNCHANGED <<dir, fs, stale0, wlog, reader, rlog, rborn, faulted>>

\* a Drop that releases the writer without flushing, and without the
\* BufWriter's own flush
WriterDropNoFlush ==
  /\ writer.st \in {"open", "panicked"}
  /\ writer' = [writer EXCEPT !.st = "dropped"]
  /\ wlast' = [op |-> "drop", kind |-> "ok", fault |-> FALSE, again |-> FALSE]
  /\ UNCHANGED <<dir, fs, stale0, wlog, reader, rlog, rborn, faulted>>

\* Drop for EfficientFileWriter: flush().unwrap(), also while a panic unwinds.
\* When the flush fails the unwrap panics; unless the process aborts (a panic
\* was unwinding already) the fields are dropped next, and the BufWriter's
\* own Drop flushes what is left once more, ignoring the error.
WriterDrop ==
  /\ writer.st \in {"open", "panicked"}
  /\ \E fl \in FlushBuf(writer.current_file, writer.current_buffer, fs) :
       /\ MayFault(~fl.ok)
       /\ wlast' = [op |-> "drop", kind |-> IF fl.ok THEN "ok" ELSE "panic", fault |-> ~fl.ok, again |-> FALSE]
       /\ IF fl.ok \/ writer.st = "panicked"
          THEN /\ writer' = [writer EXCEPT !.st = "dropped", !.current_buffer = fl.buf]
               /\ fs' = fl.fs
          ELSE \E again \in FlushBuf(writer.current_file, fl.buf, fl.fs) :
                 /\ writer' = [writer EXCEPT !.st = "dropped", !.current_buffer = again.buf]
                 /\ fs' = again.fs
  /\ UNCHANGED <<dir, stale0, wlog, reader, rlog, rborn>>

\* --------------------------------------------------------------- BufReader
\* the bytes a read of the handle at offset pos of file name gets: all that
\* the file holds from there on (none when it was truncated below pos)
FileRest(f, name, pos) == IF pos >= Len(f[name]) THEN <<>> ELSE From(f[name], pos + 1)

\* BufRead::read_until(b'\n') on the buffered bytes cb of a handle at offset
\* pos: the bytes taken through the first delimiter, or up to the end of the
\* file; a read of the file is made only when cb holds no delimiter, and it
\* can fail, before or after the file's bytes were taken
ReadUntil(f, name, cb, pos) ==
  IF NLPos(cb) > 0
  THEN { [ok |-> TRUE, bytes |-> SubSeq(cb, 1, NLPos(cb)), cb |-> From(cb, NLPos(cb) + 1),
          pos |-> pos] }
  ELSE LET data == FileRest(f, name, pos)
           p == NLPos(data)
       IN { [ok |-> FALSE, bytes |-> cb, cb |-> <<>>, pos |-> pos] }
          \cup (IF p > 0
                THEN { [ok |-> TRUE, bytes |-> cb \o SubSeq(data, 1, p),
                        cb |-> From(data, p + 1), pos |-> pos + Len(data)] }
                ELSE { [ok |-> TRUE, bytes |-> cb \o data, cb |-> <<>>,
                        pos |-> pos + Len(data)] }
                     \cup (IF data = <<>> THEN {}
                           ELSE { [ok |-> FALSE, bytes |-> cb \o data, cb |-> <<>>,
                                   pos |-> pos + Len(data)] }))

\* BufRead::read_line(buf): the bytes of read_until are appended to buf when
\* they are valid UTF-8, and dropped with InvalidData when they are not
BufReadLine(f, name, cb, pos, buf) ==
  { [kind |-> IF ~u.ok THEN "err_io"
              ELSE IF ValidUtf8(u.bytes) THEN "ok" ELSE "err_invalid_data",
     n |-> IF u.ok /\ ValidUtf8(u.bytes) THEN Len(u.bytes) ELSE 0,
     buf |-> IF ValidUtf8(u.bytes) THEN buf \o u.bytes ELSE buf,
     cb |-> u.cb, pos |-> u.pos, fault |-> ~u.ok] : u \in ReadUntil(f, name, cb, pos) }

\* ------------------------------------------------------------------ reader
\* EfficientFileReader::current_file_name (writes_per_file >= 1)
ReaderFileName(r) ==
  FileName(r.base_name,
           r.writes_performed - (r.writes_performed % r.writes_per_file))

\* the rotation test of read_line
ReaderRotates(r) == r.writes_performed % r.writes_per_file = 0

\* the file read_line opens when it rotates
ReaderNextName(r) == FileName(r.base_name, r.writes_performed)

\* whether the reader's active segment has no byte left for it
Exhausted(r, f) ==
  r.current_buffer = <<>> /\ FileRest(f, r.current_file, r.pos) = <<>>

\* whether the bytes left for the reader in its active segment are a record
\* without the trailing newline
Partial(r, f) ==
  LET left == r.current_buffer \o FileRest(f, r.current_file, r.pos)
  IN left # <<>> /\ NLPos(left) = 0

\* EfficientFileReader::new(base, n, directory)
ReaderNew(base, n) ==
  /\ reader.st = "none"
  /\ rborn' = [writes |-> Len(wlog),
               flushed |-> writer.st = "open" /\ writer.current_buffer = <<>>]
  /\ UNCHANGED <<fs, stale0, writer, wlast, wlog, rlog>>
  /\ \/ \* create_dir_all fails
        /\ ~dir
        /\ MayFault(TRUE)
        /\ reader' = [reader EXCEPT !.st = "failed"]
        /\ UNCHANGED dir
     \/ \* File::open finds no file
        /\ FileName(base, 0) \notin DOMAIN fs
        /\ MayFault(FALSE)
        /\ dir' = TRUE
        /\ reader' = [reader EXCEPT !.st = "failed"]
     \/ \* File::open or try_clone fails
        /\ FileName(base, 0) \in DOMAIN fs
        /\ MayFault(TRUE)
        /\ dir' = TRUE
        /\ reader' = [reader EXCEPT !.st = "failed"]
     \/ /\ MayFault(FALSE)
        /\ dir' = TRUE
        /\ FileName(base, 0) \in DOMAIN fs
        /\ reader' = [st |-> "open", base_name |-> base, writes_per_file |-> n,
                      writes_performed |-> 0, current_file |-> FileName(base, 0),
                      current_buffer |-> <<>>, pos |-> 0]

\* the outcomes of read_line(buf) on reader r over the files f: the reader it
\* leaves, what it returns (kind, n), the String it leaves in buf, whether a
\* file-system call failed (fault) and whether the segment it went on to
\* open is not there (missing)
ReadLineOutcomes(r, f, buf) ==
  UNION {
    IF b.kind # "ok"
    THEN { [r |-> [r EXCEPT !.current_buffer = b.cb, !.pos = b.pos], kind |-> b.kind,
            n |-> 0, buf |-> b.buf, fault |-> b.fault, missing |-> FALSE] }
    ELSE LET r1 == [r EXCEPT !.current_buffer = b.cb, !.pos = b.pos,
                             !.writes_performed = @ + 1]
             out == Pop(b.buf)
         IN IF r1.writes_per_file = 0
            THEN \* the remainder by zero panics
                 { [r |-> [r1 EXCEPT !.st = "panicked"], kind |-> "panic", n |-> 0,
                    buf |-> out, fault |-> FALSE, missing |-> FALSE] }
            ELSE IF ~ReaderRotates(r1)
            THEN { [r |-> r1, kind |-> "ok", n |-> b.n, buf |-> out, fault |-> FALSE,
                    missing |-> FALSE] }
            ELSE IF ReaderNextName(r1) \in DOMAIN f
            THEN \* File::open or try_clone fails
                 { [r |-> r1, kind |-> "err_io", n |-> 0, buf |-> out, fault |-> TRUE,
                    missing |-> FALSE] }
                 \cup { [r |-> [r1 EXCEPT !.current_file = ReaderNextName(r1),
                                          !.current_buffer = <<>>, !.pos = 0],
                         kind |-> "ok", n |-> b.n, buf |-> out, fault |-> FALSE,
                         missing |-> FALSE] }
            ELSE \* File::open finds no file
                 { [r |-> r1, kind |-> "err_not_found", n |-> 0, buf |-> out,
                    fault |-> FALSE, missing |-> TRUE] }
    : b \in BufReadLine(f, r.current_file, r.current_buffer, r.pos, buf) }

\* EfficientFileReader::read_line(buf)
ReaderReadLine(buf) ==
  /\ reader.st = "open"
  /\ Len(rlog) < MaxReads
  /\ \E o \in ReadLineOutcomes(reader, fs, buf) :
       /\ MayFault(o.fault)
       /\ reader' = o.r
       /\ rlog' = Append(rlog, [given |-> buf, kind |-> o.kind, n |-> o.n, buf |-> o.buf,
                                exhausted |-> Exhausted(reader, fs),
                                partial |-> Partial(reader, fs),
                                fault |-> o.fault, missing |-> o.missing,
                                file |-> reader.current_file,
                                name |-> IF o.r.writes_per_file = 0 THEN <<>>
                                         ELSE ReaderFileName(o.r)])
  /\ UNCHANGED <<dir, fs, stale0, writer, wlast, wlog, rborn>>

\* ----------------------------------------------------------- specification
Next ==
  \/ \E b \in Bases, n \in Thresholds : WriterNew(b, n)
  \/ \E d \in Records : WriterWrite(d)
  \/ WriterFlush
  \/ WriterCurrentFileName
  \/ WriterDrop
  \/ \E b \in Bases, n \in Thresholds : ReaderNew(b, n)
  \/ \E s \in BufInputs : ReaderReadLine(s)

Spec == Init /\ [][Next]_vars

\* the writer alone in its directory: no reader is constructed
NextWriter ==
  \/ \E b \in Bases, n \in Thresholds : WriterNew(b, n)
  \/ \E d \in Records : WriterWrite(d)
  \/ WriterFlush
  \/ WriterCurrentFileName
  \/ WriterDrop

SpecWriter == Init /\ [][NextWriter]_vars

\* two archives in one directory: the base name of the writer's, and the
\* base name of the reader's, which holds the name of a writer's segment
BaseA == <<"t">>
BaseB == <<"t", ".", "1">>

\* the segment files of the reader's archive, left by an earlier run
ArchiveB == [n \in { FileName(BaseB, i) : i \in 0..MaxWrites } |-> <<StaleByte, NL>>]

\* the records the writer on BaseA is given: one that stays in the BufWriter
\* and one that goes to the file directly
RecordsA == { <<"a">>, <<"a", "a">> }

\* the directory holds the reader's archive, and maybe old segments of the
\* writer's
InitIndependent ==
  /\ dir = TRUE
  /\ \/ fs = ArchiveB /\ stale0 = FALSE
     \/ fs = ArchiveB @@ StaleFiles /\ stale0 = TRUE
  /\ writer = Unbuilt
  /\ wlast = NoCall
  /\ wlog = <<>>
  /\ reader = Unbuilt
  /\ rlog = <<>>
  /\ rborn = [writes |-> 0, flushed |-> FALSE]
  /\ faulted = FALSE

\* a writer on BaseA and a reader on BaseB, their calls interleaved freely
NextIndependent ==
  \/ \E n \in Thresholds : WriterNew(BaseA, n)
  \/ \E d \in RecordsA : WriterWrite(d)
  \/ WriterFlush
  \/ WriterCurrentFileName
  \/ WriterDrop
  \/ \E n \in Thresholds : ReaderNew(BaseB, n)
  \/ \E s \in BufInputs : ReaderReadLine(s)

SpecIndependent == InitIndependent /\ [][NextIndependent]_vars

\* ------------------------------------------------------- terms of the claims
\* a write call that succeeded: it returned Ok, no file-system call failed
\* during it and the file took every byte it was offered
CleanWrite(e) == e.kind = "ok" /\ ~e.fault /\ ~e.short

\* the writer was constructed with a threshold >= 1 and every write call made
\* on it succeeded
WriterClean ==
  /\ writer.st = "open"
  /\ writer.writes_per_file >= 1
  /\ \A i \in 1..Len(wlog) : CleanWrite(wlog[i])

\* the writer's last call was a flush that returned Ok
Flushed == wlast.op = "flush" /\ wlast.kind = "ok"

\* the segment files of the writer's archive that exist
Segments == DOMAIN fs \cap SegmentNames(writer.base_name)

\* the reader replays a finished archive: it was constructed with the
\* writer's parameters after the writer had written and flushed, the writer
\* has written nothing since, and no call of the reader met a failure of the
\* file system
Replay ==
  /\ WriterClean
  /\ reader.st = "open"
  /\ reader.base_name = writer.base_name
  /\ reader.writes_per_file = writer.writes_per_file
  /\ rborn.flushed
  /\ rborn.writes = Len(wlog)
  /\ \A i \in 1..Len(rlog) : ~rlog[i].fault /\ rlog[i].given = <<>>

\* ------------------------------------------------------------------ claims
\* C1 (round trip): once a writer with threshold N >= 1 has written a sequence
\* of newline-free records and flushed, a reader with the same parameters
\* that calls read_line once per record gets exactly the written records, in
\* write order, the delimiter stripped.
C1_RoundTrip ==
  (Replay /\ \A i \in 1..Len(wlog) : NLPos(wlog[i].data) = 0)
  => \A i \in 1..Min(Len(rlog), Len(wlog)) :
       rlog[i].kind = "ok" /\ rlog[i].buf = wlog[i].data

\* The part of C1 the code keeps: the round trip of records that are UTF-8.
RoundTripUtf8 ==
  (Replay /\ \A i \in 1..Len(wlog) : NLPos(wlog[i].data) = 0 /\ ValidUtf8(wlog[i].data))
  => \A i \in 1..Min(Len(rlog), Len(wlog)) :
       rlog[i].kind = "ok" /\ rlog[i].buf = wlog[i].data

C3_NamingInvariant ==
  /\ (writer.st = "open" /\ writer.writes_per_file >= 1)
       => writer.current_file = WriterFileName(writer)
  /\ (reader.st = "open" /\ reader.writes_per_file >= 1)
       => reader.current_file = ReaderFileName(reader)

\* C4 (config validation): a writer or a reader is never constructed with
\* itemsPerSegment = 0 (the constructor fails before it touches the file
\* system), so no later call takes a remainder by zero.
C4_ConfigValidation ==
  /\ ~(writer.st \in {"open", "panicked", "dropped"} /\ writer.writes_per_file = 0)
  /\ ~(reader.st \in {"open", "panicked"} /\ reader.writes_per_file = 0)
  /\ writer.st # "panicked" /\ reader.st # "panicked"

\* C5 (end of segment): a read_line called when the active segment has no
\* more bytes, and meeting no failure of the file system, ends with the
\* EndOfSegment outcome: not with success and not with an IOError.
C5_EndOfSegment ==
  \A i \in 1..Len(rlog) :
    (rlog[i].exhausted /\ ~rlog[i].fault) => rlog[i].kind = "end_of_segment"

C7_SubBoundary ==
  (WriterClean /\ ~stale0 /\ Flushed /\ Len(wlog) = writer.writes_per_file - 1)
  => /\ Segments = {FileName(writer.base_name, 0)}
     /\ fs[FileName(writer.base_name, 0)] = Framed(wlog, 1, Len(wlog))
     /\ WriterFileName(writer) = FileName(writer.base_name, 0)

\* C7's case: N - 1 >= 1 writes and a flush, from an empty directory.
C7_Witness ==
  /\ WriterClean /\ ~stale0 /\ Flushed
  /\ Len(wlog) = writer.writes_per_file - 1
  /\ Len(wlog) >= 1
  /\ wlog[1].data # <<>>

\* C8 (write result): every write(record) that returns Ok has appended all
\* bytes of the record and one newline to the active segment's stream and
\* returns length(record) + 1, also when the file takes fewer bytes than
\* offered in one call.
C8_WriteResult ==
  \A i \in 1..Len(wlog) :
    wlog[i].kind = "ok"
      => /\ wlog[i].n = Len(wlog[i].data) + 1
         /\ wlog[i].taken = wlog[i].data \o <<NL>>

\* C9 (error propagation): a call of the writer during which a file-system
\* call failed returns an error; none reports success, and none ends
\* otherwise.
C9_ErrorPropagation == wlast.fault => wlast.kind = "err"

\* C10 (missing next segment): a read_line that crosses a rotation boundary
\* onto a segment file that is not there fails with not-found, and no
\* read_line of the replay of an existing, fully written archive returns
\* not-found.
C10_MissingNextSegment ==
  /\ \A i \in 1..Len(rlog) : rlog[i].missing => rlog[i].kind = "err_not_found"
  /\ (Replay /\ Len(wlog) >= 1)
       => \A i \in 1..Len(rlog) : rlog[i].kind # "err_not_found"

\* the bytes of segment baseName.(i*N) after k records: those of the records
\* i*N .. min((i+1)*N, k) - 1 of the write log
SegmentOf(i) ==
  Framed(wlog, i * writer.writes_per_file + 1,
         Min((i + 1) * writer.writes_per_file, Len(wlog)))

\* C11 (disposal flushes): when a writer is dropped after successful writes
\* and no file-system call of the run failed, every record written is on
\* storage in its segment file, also the records that were still buffered.
C11_DisposalFlushes ==
  (/\ writer.st = "dropped"
   /\ writer.writes_per_file >= 1
   /\ ~faulted
   /\ \A i \in 1..Len(wlog) : CleanWrite(wlog[i]))
  => \A i \in 0..(Len(wlog) \div writer.writes_per_file) :
       /\ FileName(writer.base_name, i * writer.writes_per_file) \in DOMAIN fs
       /\ fs[FileName(writer.base_name, i * writer.writes_per_file)] = SegmentOf(i)

\* C11's case: a dropped writer whose last record was short enough to stay in
\* the buffer, with no failure in the run.
C11_Witness ==
  /\ writer.st = "dropped" /\ ~faulted
  /\ writer.writes_per_file > Len(wlog)
  /\ Len(wlog) >= 1
  /\ wlog[Len(wlog)].data = <<"a">>
  /\ wlast.op = "drop" /\ wlast.kind = "ok"

\* C12 (idempotent flush): a flush changes neither recordsProcessed nor the
\* active segment nor the bytes of the segment's stream (file and buffer
\* together), and a flush made right after a flush that returned Ok returns
\* Ok and leaves every file as it was: no record is duplicated or dropped.
C12_IdempotentFlush ==
  [][ (writer.st = "open" /\ wlast'.op = "flush")
      => /\ writer'.writes_performed = writer.writes_performed
         /\ writer'.current_file = writer.current_file
         /\ wlog' = wlog
         /\ fs'[writer.current_file] \o writer'.current_buffer
              = fs[writer.current_file] \o writer.current_buffer
         /\ \A n \in DOMAIN fs \ {writer.current_file} : fs'[n] = fs[n]
         /\ (wlast.op = "flush" /\ wlast.kind = "ok")
              => (fs' = fs /\ writer' = writer /\ wlast'.kind = "ok") ]_vars

\* C12's case: a second flush in a row, with records on storage.
C12_Witness ==
  /\ wlast.op = "flush" /\ wlast.again /\ wlast.kind = "ok"
  /\ writer.st = "open"
  /\ Len(wlog) >= 1
  /\ fs[writer.current_file] # <<>>

\* the write calls among the first i that returned Ok
OkWrites(i) == { j \in 1..i : wlog[j].kind = "ok" }

\* whether the reader's i-th call returned a record: Ok, with bytes of the
\* segment consumed
Returned(i) == rlog[i].kind = "ok" /\ ~rlog[i].exhausted

\* the read_line calls among the first i that returned a record
RecordsRead(i) == { j \in 1..i : Returned(j) }

\* C13 (record count): the writer's writes_performed is the number of write
\* calls that returned success and the reader's writes_performed is the number
\* of records it returned; a failed write, and a read_line that finds no data
\* or fails, leave the counter alone.
C13_RecordCount ==
  /\ (writer.st = "open" /\ writer.writes_per_file >= 1)
       => writer.writes_performed = Cardinality(OkWrites(Len(wlog)))
  /\ (reader.st = "open" /\ reader.writes_per_file >= 1)
       => reader.writes_performed = Cardinality(RecordsRead(Len(rlog)))

\* the writer's active segment after its i-th write call
WriterFileAfter(i) == IF i < Len(wlog) THEN wlog[i + 1].file ELSE writer.current_file

\* the reader's active segment after its i-th read_line call
ReaderFileAfter(i) == IF i < Len(rlog) THEN rlog[i + 1].file ELSE reader.current_file

\* whether active segment to is N segment numbers after active segment from
NextSegment(base, n, from, to) ==
  \E k \in 0..(MaxWrites + MaxReads) :
    from = FileName(base, k) /\ to = FileName(base, k + n)

\* C14 (rotation state machine): with N >= 1 the active segment of a writer,
\* and of a reader, changes only from baseName.k to baseName.(k+N), in
\* exactly the operations that processed a record and made the count of
\* processed records a multiple of N.
C14_RotationStateMachine ==
  /\ (writer.st = "open" /\ writer.writes_per_file >= 1 /\ ~faulted)
       => \A i \in 1..Len(wlog) :
            /\ (WriterFileAfter(i) # wlog[i].file)
                 <=> (/\ wlog[i].kind = "ok"
                      /\ Cardinality(OkWrites(i)) % writer.writes_per_file = 0)
            /\ (WriterFileAfter(i) # wlog[i].file)
                 => NextSegment(writer.base_name, writer.writes_per_file,
                                wlog[i].file, WriterFileAfter(i))
  /\ (reader.st = "open" /\ reader.writes_per_file >= 1 /\ ~faulted)
       => \A i \in 1..Len(rlog) :
            /\ (ReaderFileAfter(i) # rlog[i].file)
                 <=> (/\ Returned(i)
                      /\ Cardinality(RecordsRead(i)) % reader.writes_per_file = 0)
            /\ (ReaderFileAfter(i) # rlog[i].file)
                 => NextSegment(reader.base_name, reader.writes_per_file,
                                rlog[i].file, ReaderFileAfter(i))

\* C15 (partial final line): a read_line that finds, as the rest of the
\* active segment, a record without its trailing newline fails with an error;
\* it does not return those bytes, whole or shortened, as a record.
C15_PartialFinalLine ==
  \A i \in 1..Len(rlog) : rlog[i].partial => rlog[i].kind # "ok"

\* the read_line calls among the first i that returned Ok
OkReads(i) == { j \in 1..i : rlog[j].kind = "ok" }

\* the reader works on the writer's archive with the writer's parameters: the
\* writer's writes all succeeded, it has written nothing since the reader was
\* constructed, and no call of the reader met a failure of the file system
SameArchive ==
  /\ WriterClean
  /\ reader.st = "open"
  /\ reader.base_name = writer.base_name
  /\ reader.writes_per_file = writer.writes_per_file
  /\ rborn.writes = Len(wlog)
  /\ \A i \in 1..Len(rlog) : ~rlog[i].fault

\* C16 (writer/reader symmetry): on the same archive with N >= 1, after j
\* read_line calls that returned Ok the reader's current_file_name() and its
\* active segment are those the writer had after j successful writes, for
\* every j up to the number of records written (j = 0 included).
C16_Symmetry ==
  SameArchive =>
    /\ \A i \in 1..Len(rlog) :
         (rlog[i].kind = "ok" /\ Cardinality(OkReads(i)) <= Len(wlog))
           => /\ rlog[i].name = wlog[Cardinality(OkReads(i))].name
              /\ ReaderFileAfter(i) = WriterFileAfter(Cardinality(OkReads(i)))
    /\ (Cardinality(OkReads(Len(rlog))) = Len(wlog))
         => /\ ReaderFileName(reader) = WriterFileName(writer)
            /\ reader.current_file = writer.current_file

\* C17 (independent archives): under every interleaving of a writer on base
\* name A with a reader on another base name B in the same directory, the
\* writer leaves the segment files of B as they were (none changed, none
\* added, none removed), and every read_line of the reader has exactly the
\* outcomes it has when the directory holds B's archive alone.
C17_IndependentArchives ==
  /\ \A i \in 0..(MaxWrites + MaxReads) :
       /\ FileName(BaseB, i) \in DOMAIN fs <=> FileName(BaseB, i) \in DOMAIN ArchiveB
       /\ FileName(BaseB, i) \in DOMAIN fs
            => fs[FileName(BaseB, i)] = ArchiveB[FileName(BaseB, i)]
  /\ reader.st = "open"
       => \A s \in BufInputs :
            ReadLineOutcomes(reader, fs, s) = ReadLineOutcomes(reader, ArchiveB, s)

\* C17's case: the reader has returned a record of B after the writer, which
\* wrote a record of A after the reader was constructed, rotated.
C17_Witness ==
  /\ writer.base_name = BaseA /\ reader.base_name = BaseB
  /\ reader.st = "open" /\ Len(rlog) >= 1 /\ Returned(Len(rlog))
  /\ rlog[Len(rlog)].buf = <<StaleByte>>
  /\ rborn.writes < Len(wlog)
  /\ CleanWrite(wlog[Len(wlog)])
  /\ writer.current_file # FileName(BaseA, 0)

\* whether the reader had met no error up to its i-th call
BeforeError(i) == \A j \in 1..i : rlog[j].kind = "ok"

\* C18 (no stale data): over a directory holding segments of an earlier run,
\* after the writer wrote its records and was flushed, every non-empty record
\* a reader with the writer's parameters returns before its first error is a
\* record of this run, never one of the earlier run.
C18_NoStaleData ==
  (stale0 /\ Replay /\ Len(wlog) >= 1)
  => \A i \in 1..Len(rlog) :
       (BeforeError(i) /\ rlog[i].buf # <<>>)
         => \E j \in 1..Len(wlog) : wlog[j].data = rlog[i].buf

\* std::io::Write::write of the writer: it hands buf to the writer's own
\* write, which appends the newline and counts it in its result
TraitWrite(buf) == WriterWrite(buf)

\* std::io::Write::flush of the writer
TraitFlush == WriterFlush

\* the writer used through its std::io::Write implementation
NextTrait ==
  \/ \E b \in Bases, n \in Thresholds : WriterNew(b, n)
  \/ \E d \in Records : TraitWrite(d)
  \/ TraitFlush
  \/ WriterDrop

SpecTrait == Init /\ [][NextTrait]_vars

\* C19 (Write trait result): every write(buf) through the std::io::Write
\* implementation that returns Ok(n) has n <= length(buf).
C19_WriteTraitResult ==
  \A i \in 1..Len(wlog) : wlog[i].kind = "ok" => wlog[i].n <= Len(wlog[i].data)

====
